---- MODULE Spec2Model ----
(***************************************************************************)
(* Model of rm_auto_aim/armor_solver: ArmorSolverNode::armorsCallback and  *)
(* the Tracker / ExtendedKalmanFilter it drives.                           *)
(*                                                                         *)
(* Units.  Lengths are centimetres, so the source's 2 (metres) is 200,     *)
(* 0.2 is 20, 0.26 is 26.  Time is counted in periods of 0.125 s, so       *)
(* lost_time_thres_ = 0.3 s is the rational 12/5 of a period.  Angles are  *)
(* quarter turns (pi/2), where cos and sin are exact.  A double that is    *)
(* not a number is the sentinel NaN; arithmetic and comparisons on it      *)
(* follow IEEE 754 (sums are NaN, every ordered comparison is false).      *)
(***************************************************************************)
EXTENDS Integers, Sequences, FiniteSets, TLC

\* ------------------------------------------------------------------------
\* doubles
\* ------------------------------------------------------------------------
NaN == -999999

IsFinite(a) == a # NaN

FAdd(a, b) == IF a = NaN \/ b = NaN THEN NaN ELSE a + b

FSub(a, b) == IF a = NaN \/ b = NaN THEN NaN ELSE a - b

FMul(a, b) == IF a = NaN \/ b = NaN THEN NaN ELSE a * b

FNeg(a) == IF a = NaN THEN NaN ELSE 0 - a

FAbs(a) == IF a = NaN THEN NaN ELSE IF a < 0 THEN 0 - a ELSE a

FGt(a, b) == a # NaN /\ b # NaN /\ a > b

FLt(a, b) == a # NaN /\ b # NaN /\ a < b

\* static_cast<int>(num / den) for a finite quotient: truncation toward zero
TruncDiv(num, den) ==
  LET an == IF num < 0 THEN 0 - num ELSE num
      ad == IF den < 0 THEN 0 - den ELSE den
      q  == an \div ad
  IN IF (num < 0) = (den < 0) THEN q ELSE 0 - q

INT_MIN == -2147483647 - 1

INT_MAX == 2147483647

\* ------------------------------------------------------------------------
\* bounds of the explored inputs
\* ------------------------------------------------------------------------
\* header stamps of the incoming batches are 0..MaxStamp, in any order
MaxStamp == 3

\* cap on lost_count (it only grows without limit on equal-stamp ticks)
MaxLostCount == 3

\* steps of the quantised filter gain: velocity (cm per period), radius (cm)
VStep == 14

RStep == 14

Stamps == 0..MaxStamp

\* ------------------------------------------------------------------------
\* parameters declared in the constructor
\* ------------------------------------------------------------------------
max_match_distance == 20

\* 1.0 rad, in 1e-4 rad
max_match_yaw_diff == 10000

\* pi/2 in 1e-4 rad
QuarterTurn == 15708

tracking_thres == 5

\* 0.3 s = 12/5 periods of 0.125 s
lost_time_thres_ == <<12, 5>>

target_frame_ == "odom"

\* ------------------------------------------------------------------------
\* messages
\* ------------------------------------------------------------------------
\* rm_interfaces::msg::Armor: number and pose (position, yaw of orientation)
Armor(number, x, y, z, yaw) ==
  [number |-> number, x |-> x, y |-> y, z |-> z, yaw |-> yaw]

\* Detections as the detector sends them, in the camera optical frame
\* (x right, y down, z forward).
CameraArmors ==
  { Armor("3", 0, 0, 100, 0),        \* a plate 1.0 m ahead
    Armor("3", 0, 0, 126, 0),        \* 26 cm behind the first
    Armor("3", 0, 0, 252, 0),        \* more than 1.0 m from all of these
    Armor("3", 0, -250, 100, 0),     \* 2.5 m above the origin
    Armor("3", 0, NaN, 100, 0),      \* height not a number
    Armor("3", 0, 0, 100, NaN),      \* yaw not a number
    Armor("4", 0, 0, 100, 0) }       \* another robot

\* the batches of two: the first plate with a second detection, both orders
Pairs ==
  { <<Armor("3", 0, 0, 100, 0), Armor("3", 0, 0, 126, 0)>>,
    <<Armor("3", 0, 0, 126, 0), Armor("3", 0, 0, 100, 0)>>,
    <<Armor("3", 0, 0, 100, 0), Armor("3", 0, -250, 100, 0)>>,
    <<Armor("3", 0, -250, 100, 0), Armor("3", 0, 0, 100, 0)>> }

Batches == {<<>>} \cup {<<a>> : a \in CameraArmors} \cup Pairs

\* tf2_buffer_->transform(ps, target_frame_): the static rotation from the
\* camera optical frame to the world frame (x forward, y left, z up)
Transform(armor) ==
  [armor EXCEPT !.x = armor.z, !.y = FNeg(armor.x), !.z = FNeg(armor.y)]

\* the loop over armors_msg->armors
RECURSIVE TransformArmors(_)
TransformArmors(armors) ==
  IF armors = <<>> THEN <<>>
  ELSE <<Transform(Head(armors))>> \o TransformArmors(Tail(armors))

\* the remove_if predicate: abs(armor.pose.position.z) > 2
IsAbnormal(armor) == FGt(FAbs(armor.z), 200)

\* armors.erase(std::remove_if(...)): keeps the others in their order
RECURSIVE FilterAbnormal(_)
FilterAbnormal(armors) ==
  IF armors = <<>> THEN <<>>
  ELSE IF IsAbnormal(Head(armors)) THEN FilterAbnormal(Tail(armors))
       ELSE <<Head(armors)>> \o FilterAbnormal(Tail(armors))

\* ------------------------------------------------------------------------
\* RobotMotionModel: the lambdas handed to the ExtendedKalmanFilter
\* ------------------------------------------------------------------------
\* state: xc, v_xc, yc, v_yc, za, v_za, yaw, v_yaw, r   (1-based here)
\* mutant: the height is not predicted
f_HeightKept(x, dt) ==
  [x EXCEPT ![1] = FAdd(x[1], FMul(x[2], dt)),
            ![3] = FAdd(x[3], FMul(x[4], dt)),
            ![7] = FAdd(x[7], FMul(x[8], dt))]

\* f - process function, with the node's dt_
f(x, dt) ==
  [x EXCEPT ![1] = FAdd(x[1], FMul(x[2], dt)),
            ![3] = FAdd(x[3], FMul(x[4], dt)),
            ![5] = FAdd(x[5], FMul(x[6], dt)),
            ![7] = FAdd(x[7], FMul(x[8], dt))]

\* cos and sin of an angle given in quarter turns
Cos(q) == IF q = NaN THEN NaN
          ELSE CASE q % 4 = 0 -> 1 [] q % 4 = 2 -> -1 [] OTHER -> 0

Sin(q) == IF q = NaN THEN NaN
          ELSE CASE q % 4 = 1 -> 1 [] q % 4 = 3 -> -1 [] OTHER -> 0

\* h - observation function: xa, ya, za, yaw
h(x) ==
  << FSub(x[1], FMul(x[9], Cos(x[7]))),
     FSub(x[3], FMul(x[9], Sin(x[7]))),
     x[5],
     x[7] >>

\* ekf.sigma2_q_x, _y, _z, _yaw, _r as declared
s2qx_ == 20

s2qy_ == 20

s2qz_ == 20

s2qyaw_ == 100

s2qr_ == 800

\* u_q - process noise covariance for the time difference t = dt_.  The
\* entries are kept as 4 * q, so that pow(t, 4) / 4 * s is t^4 * s.
u_q(t) ==
  LET x == s2qx_  y == s2qy_  z == s2qz_  yaw == s2qyaw_  r == s2qr_
      q_x_x == t*t*t*t * x      q_x_vx == 2 * t*t*t * x
      q_vx_vx == 4 * t*t * x
      q_y_y == t*t*t*t * y      q_y_vy == 2 * t*t*t * y
      q_vy_vy == 4 * t*t * y
      q_z_z == t*t*t*t * x      q_z_vz == 2 * t*t*t * x
      q_vz_vz == 4 * t*t * z
      q_yaw_yaw == t*t*t*t * yaw  q_yaw_vyaw == 2 * t*t*t * x
      q_vyaw_vyaw == 4 * t*t * yaw
      q_r == t*t*t*t * r
  IN << <<q_x_x,  q_x_vx,  0, 0, 0, 0, 0, 0, 0>>,
        <<q_x_vx, q_vx_vx, 0, 0, 0, 0, 0, 0, 0>>,
        <<0, 0, q_y_y,  q_y_vy,  0, 0, 0, 0, 0>>,
        <<0, 0, q_y_vy, q_vy_vy, 0, 0, 0, 0, 0>>,
        <<0, 0, 0, 0, q_z_z,  q_z_vz,  0, 0, 0>>,
        <<0, 0, 0, 0, q_z_vz, q_vz_vz, 0, 0, 0>>,
        <<0, 0, 0, 0, 0, 0, q_yaw_yaw,  q_yaw_vyaw,  0>>,
        <<0, 0, 0, 0, 0, 0, q_yaw_vyaw, q_vyaw_vyaw, 0>>,
        <<0, 0, 0, 0, 0, 0, 0, 0, q_r>> >>

\* ------------------------------------------------------------------------
\* Tracker (tracker_state, counters, EKF state)
\* ------------------------------------------------------------------------
\* robot_type_table: every id of the explored detections is a 4-plate robot
robot_type_table(id) == 4

ZeroState == <<0, 0, 0, 0, 0, 0, 0, 0, 0>>

\* mutant: tracking_thres is left as the Tracker declares it
NewTracker_ThresUnset ==
  [tracker_state |-> "LOST", tracked_id |-> "", tracked_armors_num |-> 0,
   target_state |-> ZeroState, ekf_P |-> "P0", ekf_Q |-> <<>>,
   measurement |-> <<0, 0, 0, 0>>,
   another_r |-> 0, dz |-> 0, last_yaw |-> 0,
   detect_count |-> 0, lost_count |-> 0, lost_thres |-> 0,
   tracking_thres |-> 0,
   max_match_distance |-> max_match_distance,
   max_match_yaw_diff |-> max_match_yaw_diff]

\* mutant: the two thresholds are handed to the Tracker in the wrong order
\* (1.0 m as the distance, 0.2 rad as the yaw difference)
NewTracker_ArgsSwapped ==
  [tracker_state |-> "LOST", tracked_id |-> "", tracked_armors_num |-> 0,
   target_state |-> ZeroState, ekf_P |-> "P0", ekf_Q |-> <<>>,
   measurement |-> <<0, 0, 0, 0>>,
   another_r |-> 0, dz |-> 0, last_yaw |-> 0,
   detect_count |-> 0, lost_count |-> 0, lost_thres |-> 0,
   tracking_thres |-> tracking_thres,
   max_match_distance |-> max_match_yaw_diff \div 100,
   max_match_yaw_diff |-> max_match_distance * 100]

\* the Tracker as constructed: LOST, nothing tracked
NewTracker ==
  [tracker_state |-> "LOST", tracked_id |-> "", tracked_armors_num |-> 0,
   target_state |-> ZeroState, ekf_P |-> "P0", ekf_Q |-> <<>>,
   measurement |-> <<0, 0, 0, 0>>,
   another_r |-> 0, dz |-> 0, last_yaw |-> 0,
   detect_count |-> 0, lost_count |-> 0, lost_thres |-> 0,
   tracking_thres |-> tracking_thres,
   max_match_distance |-> max_match_distance,
   max_match_yaw_diff |-> max_match_yaw_diff]

Norm2(x, y, z) == FAdd(FAdd(FMul(x, x), FMul(y, y)), FMul(z, z))

\* mutant: init takes the first armor of the batch
ClosestFrom_First(armors, i, best) == 1

\* index of the armor init selects: the smallest |position|, the earlier one
\* on a tie; the first armor when no distance compares
RECURSIVE ClosestFrom(_, _, _)
ClosestFrom(armors, i, best) ==
  IF i > Len(armors) THEN best
  ELSE LET d  == Norm2(armors[i].x, armors[i].y, armors[i].z)
           bd == Norm2(armors[best].x, armors[best].y, armors[best].z)
       IN ClosestFrom(armors, i + 1,
                      IF FLt(d, bd) \/ (IsFinite(d) /\ ~IsFinite(bd))
                      THEN i ELSE best)

\* Tracker::init(armors_msg)
Tracker_init(tr, armors) ==
  IF armors = <<>> THEN tr
  ELSE LET a == armors[ClosestFrom(armors, 1, 1)]
       IN [tr EXCEPT !.tracker_state = "DETECTING",
                     !.tracked_id = a.number,
                     !.tracked_armors_num = robot_type_table(a.number),
                     !.target_state = <<a.x, 0, a.y, 0, a.z, 0, a.yaw, 0, 26>>,
                     !.ekf_P = "P0",
                     !.another_r = 26,
                     !.dz = 0,
                     !.last_yaw = a.yaw]

\* ArmorGeometry: predicted position of plate i (0-based) of the robot
PlatePosition(x, n, another_r, dz, i) ==
  LET ang == FAdd(x[7], i * (4 \div n))
      odd == n = 4 /\ i % 2 = 1
      r   == IF odd THEN another_r ELSE x[9]
  IN << FSub(x[1], FMul(r, Cos(ang))),
        FSub(x[3], FMul(r, Sin(ang))),
        IF odd THEN FAdd(x[5], dz) ELSE x[5] >>

PlateDist2(x, n, another_r, dz, i, a) ==
  LET p == PlatePosition(x, n, another_r, dz, i)
  IN Norm2(FSub(a.x, p[1]), FSub(a.y, p[2]), FSub(a.z, p[3]))

\* association: over the armors of the tracked id and the plates of the
\* robot, the closest pair <<distance^2, armor index, plate index>> among
\* those whose distance compares (earliest armor, lowest plate on a tie);
\* <<0, 0, 0>> when there is none
BestMatch(tr, x, armors) ==
  LET ps == { c \in (1..Len(armors)) \X (0..(tr.tracked_armors_num - 1)) :
                armors[c[1]].number = tr.tracked_id }
      ds == { << PlateDist2(x, tr.tracked_armors_num, tr.another_r, tr.dz,
                            c[2], armors[c[1]]), c[1], c[2] >> : c \in ps }
      cs == { t \in ds : IsFinite(t[1]) }
  IN IF cs = {} THEN <<0, 0, 0>>
     ELSE CHOOSE c \in cs :
            \A e \in cs :
              \/ c[1] < e[1]
              \/ c[1] = e[1] /\ (c[2] < e[2] \/ (c[2] = e[2] /\ c[3] <= e[3]))

\* yaw_obs moved by whole turns so that yaw_obs - last_yaw is in (-pi, pi]
Unwrap(yaw, last_yaw) ==
  IF yaw = NaN \/ last_yaw = NaN THEN NaN
  ELSE last_yaw + (((yaw - last_yaw + 1) % 4) - 1)

Clamp(r) == IF r < 12 THEN 12 ELSE IF r > 40 THEN 40 ELSE r

\* Tracker::update(armors_msg) up to the filter: predict, then associate.
\* The result names what the tick does with the filter:
\*   kind "miss"   - no armor within max_match_distance of a predicted plate
\*   kind "same"   - the closest armor is plate 0 and its yaw agrees
\*   kind "jump"   - the closest armor is another plate, or its yaw disagrees
\* x is the state the measurement update starts from, z the measurement.
Associate(tr, armors, dt) ==
  LET x_pred == f(tr.target_state, dt)
      m      == BestMatch(tr, x_pred, armors)
      miss   == [kind |-> "miss", x |-> x_pred, z |-> tr.measurement,
                 another_r |-> tr.another_r, dz |-> tr.dz]
  IN IF m[2] = 0 THEN miss
     ELSE
       LET a    == armors[m[2]]
           yaw  == Unwrap(a.yaw, tr.last_yaw)
           z    == <<a.x, a.y, a.z, yaw>>
           near == m[1] < tr.max_match_distance * tr.max_match_distance
           yawOk == /\ IsFinite(yaw) /\ IsFinite(x_pred[7])
                    /\ FAbs(yaw - x_pred[7]) * QuarterTurn
                         < tr.max_match_yaw_diff
       IN IF ~near THEN miss
          ELSE IF m[3] = 0 /\ yawOk
          THEN [kind |-> "same", x |-> x_pred, z |-> z,
                another_r |-> tr.another_r, dz |-> tr.dz]
          ELSE IF ~IsFinite(yaw) THEN miss
          ELSE [kind |-> "jump",
                x |-> [x_pred EXCEPT ![5] = a.z, ![7] = yaw,
                                     ![9] = tr.another_r],
                z |-> z,
                another_r |-> x_pred[9],
                dz |-> FSub(a.z, x_pred[5])]

\* ExtendedKalmanFilter::update(z).  The Kalman gain is not computed; it
\* is one of four quantised cases:
\*   "none" - K = 0, the posterior is the prior
\*   "pos"  - the innovation is taken up by the centre, height and yaw
\*   "vel"  - as "pos", and each velocity moves one VStep towards its
\*            innovation
\*   "r"    - the radius moves one RStep against the radial innovation
Gains == {"none", "pos", "vel", "r"}

\* the gains the callback's ticks are explored with
TickGains == {"none", "pos"}

Sgn(a) == IF a > 0 THEN 1 ELSE IF a < 0 THEN -1 ELSE 0

ekf_update(x, z, gain) ==
  LET hx == h(x)
      ix == z[1] - hx[1]
      iy == z[2] - hx[2]
      iz == z[3] - hx[3]
      iw == z[4] - hx[4]
  IN CASE gain = "pos" ->
            [x EXCEPT ![1] = @ + ix, ![3] = @ + iy, ![5] = @ + iz, ![7] = @ + iw]
       [] gain = "vel" ->
            [x EXCEPT ![1] = @ + ix, ![2] = @ + VStep * Sgn(ix),
                      ![3] = @ + iy, ![4] = @ + VStep * Sgn(iy),
                      ![5] = @ + iz, ![6] = @ + VStep * Sgn(iz),
                      ![7] = @ + iw, ![8] = @ + Sgn(iw)]
       [] gain = "r" ->
            [x EXCEPT ![9] = @ - RStep * Sgn(ix * Cos(x[7]) + iy * Sin(x[7]))]
       [] OTHER -> x

\* Tracker::update(armors_msg) from the association as on: correct, then
\* the state machine, then the bounds on the radius
Tracker_update(tr, as, gain) ==
  LET matched == as.kind # "miss"
      post    == IF matched THEN ekf_update(as.x, as.z, gain) ELSE as.x
      st      == tr.tracker_state
      t1      == [tr EXCEPT
                    !.target_state = [post EXCEPT ![9] = Clamp(post[9])],
                    !.ekf_P = IF matched THEN "post" ELSE "pred",
                    !.measurement = IF matched THEN as.z ELSE @,
                    !.another_r = as.another_r,
                    !.dz = as.dz,
                    !.last_yaw = IF matched THEN post[7] ELSE @]
  IN CASE st = "DETECTING" ->
            IF matched
            THEN IF tr.detect_count + 1 >= tr.tracking_thres
                 THEN [t1 EXCEPT !.detect_count = 0,
                                 !.tracker_state = "TRACKING"]
                 ELSE [t1 EXCEPT !.detect_count = @ + 1]
            ELSE [t1 EXCEPT !.detect_count = 0, !.tracker_state = "LOST"]
       [] st = "TRACKING" ->
            IF matched THEN t1
            ELSE [t1 EXCEPT !.tracker_state = "TEMP_LOST", !.lost_count = 1]
       [] st = "TEMP_LOST" ->
            IF matched
            THEN [t1 EXCEPT !.tracker_state = "TRACKING", !.lost_count = 0]
            ELSE IF tr.lost_count + 1 > tr.lost_thres
                 THEN [t1 EXCEPT !.lost_count = @ + 1,
                                 !.tracker_state = "LOST"]
                 ELSE [t1 EXCEPT !.lost_count = @ + 1]
       [] OTHER -> tr

\* ------------------------------------------------------------------------
\* ArmorSolverNode
\* ------------------------------------------------------------------------
VARIABLES
  tracker_,     \* the Tracker and its filter
  dt_,          \* time difference the filter lambdas read
  last_time_,   \* stamp of the last tick that ran to its end
  solver_,      \* TRUE once the Solver has been created
  tick,         \* what the most recent armorsCallback did and published
  run           \* observer: consecutive ticks, counted from the init tick,
                \* on which the tracker took an armor (0 after a miss)

vars == <<tracker_, dt_, last_time_, solver_, tick, run>>

\* rm_interfaces::msg::Target as constructed (all fields zero)
NewTarget ==
  [stamp |-> 0, frame_id |-> "", tracking |-> FALSE, id |-> "",
   armors_num |-> 0, position |-> <<0, 0, 0>>, velocity |-> <<0, 0, 0>>,
   yaw |-> 0, v_yaw |-> 0, radius_1 |-> 0, radius_2 |-> 0, dz |-> 0]

\* mutant: radius_1 is read one entry early (state(7), the yaw rate)
Filled_RadiusIndex(msg, tr) ==
  [msg EXCEPT !.tracking = TRUE,
              !.id = tr.tracked_id,
              !.armors_num = tr.tracked_armors_num,
              !.position = <<tr.target_state[1], tr.target_state[3],
                             tr.target_state[5]>>,
              !.velocity = <<tr.target_state[2], tr.target_state[4],
                             tr.target_state[6]>>,
              !.yaw = tr.target_state[7],
              !.v_yaw = tr.target_state[8],
              !.radius_1 = tr.target_state[8],
              !.radius_2 = tr.another_r,
              !.dz = tr.dz]

\* the payload of a tracked target
Filled(msg, tr) ==
  [msg EXCEPT !.tracking = TRUE,
              !.id = tr.tracked_id,
              !.armors_num = tr.tracked_armors_num,
              !.position = <<tr.target_state[1], tr.target_state[3],
                             tr.target_state[5]>>,
              !.velocity = <<tr.target_state[2], tr.target_state[4],
                             tr.target_state[6]>>,
              !.yaw = tr.target_state[7],
              !.v_yaw = tr.target_state[8],
              !.radius_1 = tr.target_state[9],
              !.radius_2 = tr.another_r,
              !.dz = tr.dz]

\* mutant: the payload is filled outside the TRACKING / TEMP_LOST branch
TargetMsg_FillsAlways(was_lost, tr, time) ==
  LET msg == [NewTarget EXCEPT !.stamp = time, !.frame_id = target_frame_]
  IN IF was_lost THEN msg
     ELSE [Filled(msg, tr) EXCEPT
             !.tracking = tr.tracker_state \in {"TRACKING", "TEMP_LOST"}]

\* mutant: DETECTING is reported as tracking
TargetMsg_DetectingTracks(was_lost, tr, time) ==
  LET msg == [NewTarget EXCEPT !.stamp = time, !.frame_id = target_frame_]
  IN IF was_lost THEN msg
     ELSE IF tr.tracker_state = "LOST" THEN msg
     ELSE Filled(msg, tr)

\* mutant: TEMP_LOST is not reported as tracking
TargetMsg_TempLostDropped(was_lost, tr, time) ==
  LET msg == [NewTarget EXCEPT !.stamp = time, !.frame_id = target_frame_]
  IN IF was_lost THEN msg
     ELSE IF tr.tracker_state = "TRACKING" THEN Filled(msg, tr)
     ELSE msg

\* the target message of a tick: header, tracking flag and payload.
\* was_lost: the tracker was LOST when the tick began (init branch);
\* tr: the tracker after init or update.
TargetMsg(was_lost, tr, time) ==
  LET msg == [NewTarget EXCEPT !.stamp = time, !.frame_id = target_frame_]
  IN IF was_lost THEN msg
     ELSE IF tr.tracker_state = "DETECTING" THEN msg
     ELSE IF tr.tracker_state = "TRACKING" \/ tr.tracker_state = "TEMP_LOST"
     THEN Filled(msg, tr)
     ELSE msg

\* the measurement message of a tick, published in the update branch
MeasurePub(was_lost, tr) ==
  IF was_lost THEN <<>>
  ELSE << [x |-> tr.measurement[1], y |-> tr.measurement[2],
           z |-> tr.measurement[3], yaw |-> tr.measurement[4]] >>

\* rm_interfaces::msg::GimbalCmd as constructed
NewGimbalCmd ==
  [yaw_diff |-> 0, pitch_diff |-> 0, distance |-> 0, fire_advice |-> FALSE]

NeutralCmd == [NewGimbalCmd EXCEPT !.distance = -1]

\* what solver_->solve can do: throw, or return a command
SolverOutcomes ==
  { [threw |-> TRUE, cmd |-> NewGimbalCmd],
    [threw |-> FALSE,
     cmd |-> [yaw_diff |-> 3, pitch_diff |-> -2, distance |-> 4,
              fire_advice |-> TRUE]] }

\* mutant: the catch block leaves the command as constructed
ControlMsg_CatchUnset(target_msg, outcome) ==
  IF target_msg.tracking
  THEN IF outcome.threw THEN NewGimbalCmd ELSE outcome.cmd
  ELSE NeutralCmd

\* "Solve control command": the gimbal command of a tick
ControlMsg(target_msg, outcome) ==
  IF target_msg.tracking
  THEN IF outcome.threw THEN NeutralCmd ELSE outcome.cmd
  ELSE NeutralCmd

\* target_pub_->publish(target_msg)
TargetPub(target_msg) == <<target_msg>>

\* mutant: no command goes out for an inactive target
GimbalPub_ActiveOnly(control_msg) ==
  IF control_msg.distance = -1 THEN <<>> ELSE <<control_msg>>

\* gimbal_pub_->publish(control_msg)
GimbalPub(control_msg) == <<control_msg>>

\* std::abs(static_cast<int>(lost_time_thres_ / dt_)).  With dt_ = 0 the
\* quotient is infinite and the conversion is undefined: the builds give
\* INT_MIN (whose abs overflows and stays INT_MIN) or saturate to INT_MAX.
LostThresOutcomes(dt) ==
  IF dt = 0 THEN {INT_MIN, INT_MAX}
  ELSE LET q == TruncDiv(lost_time_thres_[1], lost_time_thres_[2] * dt)
       IN {IF q < 0 THEN 0 - q ELSE q}

RunCap == tracking_thres + 2

NoTick ==
  [kind |-> "none", armors |-> <<>>, target_pub |-> <<>>,
   gimbal_pub |-> <<>>, measure_pub |-> <<>>, solver |-> "not called"]

Init ==
  /\ tracker_ = NewTracker
  /\ dt_ = 0
  /\ last_time_ = 0
  /\ solver_ = FALSE
  /\ tick = NoTick
  /\ run = 0

\* mutant: the stamp is remembered before the transform is tried
OnTransformError_StampKept(armors_msg) ==
  /\ tick' = [NoTick EXCEPT !.kind = "dropped"]
  /\ last_time_' = armors_msg.stamp
  /\ UNCHANGED <<tracker_, dt_, run>>

\* the catch of tf2::TransformException: log and return
OnTransformError(armors_msg) ==
  /\ tick' = [NoTick EXCEPT !.kind = "dropped"]
  /\ UNCHANGED <<tracker_, dt_, last_time_, run>>

\* mutant: the stamp is remembered only while a track exists
Publish_StampOnlyTracked(kind, armors, tr, target_msg, outcome) ==
  /\ tracker_' = tr
  /\ last_time_' = IF tr.tracker_state = "LOST" THEN last_time_
                   ELSE target_msg.stamp
  /\ tick' = [kind |-> kind, armors |-> armors,
              target_pub |-> TargetPub(target_msg),
              gimbal_pub |-> GimbalPub(ControlMsg(target_msg, outcome)),
              measure_pub |-> MeasurePub(kind = "init", tr),
              solver |-> IF ~target_msg.tracking THEN "not called"
                         ELSE IF outcome.threw THEN "threw"
                         ELSE "returned"]

\* the rest of the callback after the tracker step: publish the target,
\* solve, publish the gimbal command, remember the stamp
Publish(kind, armors, tr, target_msg, outcome) ==
  /\ tracker_' = tr
  /\ last_time_' = target_msg.stamp
  /\ tick' = [kind |-> kind, armors |-> armors,
              target_pub |-> TargetPub(target_msg),
              gimbal_pub |-> GimbalPub(ControlMsg(target_msg, outcome)),
              measure_pub |-> MeasurePub(kind = "init", tr),
              solver |-> IF ~target_msg.tracking THEN "not called"
                         ELSE IF outcome.threw THEN "threw"
                         ELSE "returned"]

\* the solver is called on a tracking target only
SolverCalls(target_msg) ==
  IF target_msg.tracking THEN SolverOutcomes
  ELSE {CHOOSE o \in SolverOutcomes : o.threw}

\* armorsCallback on a batch whose transform fails at some armor
TickDropped(armors_msg) ==
  /\ armors_msg.armors # <<>>
  /\ solver_' = TRUE
  /\ OnTransformError(armors_msg)

\* mutant: a temporarily lost track is initialised again
NeedsInit_AlsoTempLost(tr) == tr.tracker_state \in {"LOST", "TEMP_LOST"}

\* if (tracker_->tracker_state == Tracker::LOST)
NeedsInit(tr) == tr.tracker_state = "LOST"

\* mutant: dt_ is computed before the branch on the tracker state
TickInit_RecomputesDt(armors_msg) ==
  /\ tracker_.tracker_state = "LOST"
  /\ solver_' = TRUE
  /\ dt_' = armors_msg.stamp - last_time_
  /\ \E armors \in {FilterAbnormal(TransformArmors(armors_msg.armors))} :
     \E tr \in {Tracker_init(tracker_, armors)} :
     \E target_msg \in {TargetMsg(TRUE, tr, armors_msg.stamp)} :
     \E outcome \in SolverCalls(target_msg) :
       /\ run' = IF tr.tracker_state = "LOST" THEN 0 ELSE 1
       /\ Publish("init", armors, tr, target_msg, outcome)

\* armorsCallback on a batch whose transforms succeed, tracker LOST
TickInit(armors_msg) ==
  /\ NeedsInit(tracker_)
  /\ solver_' = TRUE
  /\ UNCHANGED dt_
  /\ \E armors \in {FilterAbnormal(TransformArmors(armors_msg.armors))} :
     \E tr \in {Tracker_init(tracker_, armors)} :
     \E target_msg \in {TargetMsg(TRUE, tr, armors_msg.stamp)} :
     \E outcome \in SolverCalls(target_msg) :
       /\ run' = IF tr.tracker_state = "LOST" THEN 0 ELSE 1
       /\ Publish("init", armors, tr, target_msg, outcome)

\* armorsCallback on a batch whose transforms succeed, tracker not LOST;
\* gains are the filter gains the tick is explored with
TickUpdateWith(armors_msg, gains) ==
  /\ ~NeedsInit(tracker_)
  /\ armors_msg.stamp = last_time_ => tracker_.lost_count < MaxLostCount
  /\ solver_' = TRUE
  /\ \E dt \in {armors_msg.stamp - last_time_} :
     \E armors \in {FilterAbnormal(TransformArmors(armors_msg.armors))} :
     \E as \in {Associate(tracker_, armors, dt)} :
     \E lt \in LostThresOutcomes(dt) :
     \E gain \in (IF as.kind # "miss" THEN gains ELSE {"none"}) :
     \E tr \in {Tracker_update([tracker_ EXCEPT !.lost_thres = lt,
                                                 !.ekf_Q = u_q(dt)],
                                as, gain)} :
     \E target_msg \in {TargetMsg(FALSE, tr, armors_msg.stamp)} :
     \E outcome \in SolverCalls(target_msg) :
       /\ dt_' = dt
       /\ run' = IF as.kind = "miss" \/ run = 0 THEN 0
                 ELSE IF run < RunCap THEN run + 1 ELSE run
       /\ Publish("update", armors, tr, target_msg, outcome)

TickUpdate(armors_msg) == TickUpdateWith(armors_msg, TickGains)

ArmorsMsgs == [stamp : Stamps, armors : Batches]

Next ==
  \E armors_msg \in ArmorsMsgs :
    \/ TickDropped(armors_msg)
    \/ TickInit(armors_msg)
    \/ TickUpdate(armors_msg)

Spec == Init /\ [][Next]_vars

\* ------------------------------------------------------------------------
\* The node fed batches of two detections of one robot, in both orders:
\* detections at different distances and at the same distance in different
\* places.
\* ------------------------------------------------------------------------
PairArmors ==
  { Armor("3", 0, 0, 100, 0), Armor("3", 0, 0, 126, 0),
    Armor("3", 100, 0, 0, 0) }

PairMsgs ==
  [stamp : Stamps,
   armors : {<<>>} \cup
            {p \in PairArmors \X PairArmors : p[1] # p[2]}]

NextPairs ==
  \E armors_msg \in PairMsgs :
    \/ TickDropped(armors_msg)
    \/ TickInit(armors_msg)
    \/ TickUpdate(armors_msg)

SpecPairs == Init /\ [][NextPairs]_vars

\* ------------------------------------------------------------------------
\* The node with a moving target: it starts in the state a matched update
\* leaves, the track TRACKING with a velocity, and the radius gain is
\* explored too.  The track is followed until it is lost.
\* ------------------------------------------------------------------------
TrackedGains == {"none", "pos", "r"}

\* filter states of a confirmed track of robot "3" whose plate 0 faces the
\* camera: at rest, moving along x, moving and turning on every axis
TrackedStates ==
  { <<126, v[1], 0, v[2], 0, v[3], 0, v[4], r>> :
      v \in { <<0, 0, 0, 0>>, <<VStep, 0, 0, 0>>,
              <<0 - VStep, VStep, VStep, 1>> },
      r \in {12, 26, 40} }

\* the Tracker after a matched update that left the posterior x
TrackedTracker(x) ==
  [NewTracker EXCEPT !.tracker_state = "TRACKING",
                     !.tracked_id = "3",
                     !.tracked_armors_num = robot_type_table("3"),
                     !.target_state = x,
                     !.ekf_P = "post",
                     !.ekf_Q = u_q(1),
                     !.measurement = h(x),
                     !.another_r = 26,
                     !.last_yaw = x[7],
                     !.lost_thres = 2]

InitTracked ==
  \E x \in TrackedStates :
  \E tr \in {TrackedTracker(x)} :
  \E target_msg \in {TargetMsg(FALSE, tr, 1)} :
  \E outcome \in {o \in SolverOutcomes : ~o.threw} :
    /\ tracker_ = tr
    /\ dt_ = 1
    /\ last_time_ = 1
    /\ solver_ = TRUE
    /\ run = RunCap
    /\ tick = [kind |-> "update",
               armors |-> <<Armor("3", h(x)[1], h(x)[2], h(x)[3], h(x)[4])>>,
               target_pub |-> TargetPub(target_msg),
               gimbal_pub |-> GimbalPub(ControlMsg(target_msg, outcome)),
               measure_pub |-> MeasurePub(FALSE, tr),
               solver |-> "returned"]

\* the batches a track is followed with: none, its plate, one out of reach
TrackedMsgs ==
  [stamp : Stamps,
   armors : { <<>>, <<Armor("3", 0, 0, 100, 0)>>,
              <<Armor("3", 0, 0, 252, 0)>> }]

\* the life of the track: the batches stop when it is LOST
NextTracked ==
  \E armors_msg \in TrackedMsgs :
    \/ ~NeedsInit(tracker_) /\ TickDropped(armors_msg)
    \/ TickUpdateWith(armors_msg, TrackedGains)

SpecTracked == InitTracked /\ [][NextTracked]_vars

TypeOK ==
  /\ tracker_.tracker_state \in {"LOST", "DETECTING", "TRACKING", "TEMP_LOST"}
  /\ tick.kind \in {"none", "dropped", "init", "update"}

----------------------------------------------------------------------------
\* Properties of the node

Ran == tick.kind \in {"init", "update"}

FLe(a, b) == IsFinite(a) /\ IsFinite(b) /\ a <= b

\* C1: a tick whose transform fails is dropped whole: the tracker (neither
\* init nor update runs), dt_ and last_time_ are what they were before it.
C1_TransformFailureDropsTick ==
  [][tick'.kind = "dropped" =>
       /\ tracker_' = tracker_
       /\ dt_' = dt_
       /\ last_time_' = last_time_]_vars

C1_Witness ==
  /\ tick.kind = "dropped"
  /\ tracker_.tracker_state = "TRACKING"
  /\ last_time_ > 0

\* C2 (as stated): every tick publishes exactly one target snapshot and
\* exactly one gimbal command, whatever happens during the tick.
C2_EveryTickPublishes ==
  tick.kind # "none" =>
    Len(tick.target_pub) = 1 /\ Len(tick.gimbal_pub) = 1

\* C2 (amended): every tick that is not dropped publishes exactly one
\* target snapshot and exactly one gimbal command, whatever the tracker and
\* the solver do; a tick dropped on a transform failure publishes neither.
C2_CompletedTickPublishes ==
  /\ Ran => Len(tick.target_pub) = 1 /\ Len(tick.gimbal_pub) = 1
  /\ tick.kind = "dropped" => tick.target_pub = <<>> /\ tick.gimbal_pub = <<>>

C2_Witness ==
  /\ tick.kind = "update"
  /\ tracker_.tracker_state = "LOST"
  /\ Len(tick.target_pub) = 1
  /\ Len(tick.gimbal_pub) = 1

\* C3: a published snapshot has tracking = true exactly when the tracker
\* is TRACKING or TEMP_LOST after the tick's step; otherwise tracking is
\* false and the payload is all zero.
C3_TrackingFlag ==
  tick.target_pub # <<>> =>
    LET msg == tick.target_pub[1]
    IN /\ msg.tracking <=>
            tracker_.tracker_state \in {"TRACKING", "TEMP_LOST"}
       /\ ~msg.tracking =>
            msg = [NewTarget EXCEPT !.stamp = msg.stamp,
                                    !.frame_id = msg.frame_id]
       /\ msg.tracking =>
            /\ msg.id = tracker_.tracked_id
            /\ msg.position = <<tracker_.target_state[1],
                                tracker_.target_state[3],
                                tracker_.target_state[5]>>

C3_Witness ==
  /\ tick.target_pub # <<>>
  /\ tick.target_pub[1].tracking
  /\ tracker_.tracker_state = "TEMP_LOST"
  /\ tick.target_pub[1].position[1] # 0

\* C4: the gimbal command is the neutral one (zero angles, distance -1, no
\* fire) when the target is not tracking or the solver throws; the solver
\* is called on a tracking target only; a tick whose solver throws leaves
\* the tracker as published and still remembers the stamp.
C4_NeutralCommand ==
  tick.gimbal_pub # <<>> =>
    LET msg == tick.target_pub[1]
        cmd == tick.gimbal_pub[1]
    IN /\ (~msg.tracking \/ tick.solver = "threw") => cmd = NeutralCmd
       /\ cmd = NeutralCmd =>
            /\ cmd.yaw_diff = 0 /\ cmd.pitch_diff = 0
            /\ cmd.distance = -1 /\ ~cmd.fire_advice
       /\ tick.solver # "not called" <=> msg.tracking
       /\ tick.solver = "threw" =>
            /\ last_time_ = msg.stamp
            /\ tracker_.tracker_state \in {"TRACKING", "TEMP_LOST"}
            /\ msg.id = tracker_.tracked_id
            /\ msg.yaw = tracker_.target_state[7]

C4_Witness ==
  /\ tick.solver = "threw"
  /\ tick.gimbal_pub = <<NeutralCmd>>
  /\ last_time_ = MaxStamp

\* C5 (as stated): Tracker.update never runs with dt <= 0; such a tick is
\* dropped.
C5_UpdateHasPositiveDt ==
  tick.kind = "update" => dt_ > 0

\* C6 (as stated): a Measurement is published only if the tracker is not
\* LOST at the moment of publication.
C6_MeasurementOnlyIfNotLost ==
  tick.measure_pub # <<>> => tracker_.tracker_state # "LOST"

\* C7 (as stated): every observation handed to the tracker satisfies
\* |z| <= 2 m in the target frame.
C7_HandedWithinHeight ==
  \A i \in 1..Len(tick.armors) : FLe(FAbs(tick.armors[i].z), 200)

\* C8 (as stated): no observation with a non-finite yaw or z reaches
\* Tracker.init or Tracker.update.
C8_HandedFinite ==
  Ran => \A i \in 1..Len(tick.armors) :
           IsFinite(tick.armors[i].yaw) /\ IsFinite(tick.armors[i].z)

\* C9 (as stated): from LOST, on the fifth consecutive tick that gives the
\* tracker an armor it takes, the snapshot has tracking = true.
C9_TrackingOnFifth ==
  (Ran /\ run = tracking_thres) => tick.target_pub[1].tracking

\* C9 (amended): from LOST, the tick that initialises the track does not
\* count: the track is DETECTING with tracking = false on the first
\* tracking_thres ticks that give the tracker an armor it takes, and
\* becomes TRACKING with tracking = true on the next one.
C9_TrackingOnSixth ==
  Ran =>
    /\ run \in 1..tracking_thres =>
         /\ ~tick.target_pub[1].tracking
         /\ tracker_.tracker_state = "DETECTING"
         /\ tracker_.detect_count = run - 1
    /\ run > tracking_thres =>
         /\ tick.target_pub[1].tracking
         /\ tracker_.tracker_state = "TRACKING"

C9_Witness ==
  /\ Ran
  /\ run = tracking_thres + 1
  /\ tick.target_pub[1].tracking

\* C10: a TRACKING track that gets an empty batch becomes TEMP_LOST with
\* lost_count = 1 and tracking still true; each further empty batch adds
\* one to lost_count, the track staying TEMP_LOST with tracking true while
\* lost_count <= lost_thres and becoming LOST with tracking false once
\* lost_count > lost_thres.  With dt > 0, lost_thres is at most
\* lost_time_thres / dt, so a run of empty batches ends in LOST.
C10_EmptyTick ==
  (tick'.kind = "update" /\ tick'.armors = <<>>) =>
    /\ tracker_.tracker_state = "TRACKING" =>
         /\ tracker_'.tracker_state = "TEMP_LOST"
         /\ tracker_'.lost_count = 1
         /\ tick'.target_pub[1].tracking
    /\ tracker_.tracker_state = "TEMP_LOST" =>
         IF tracker_.lost_count + 1 > tracker_'.lost_thres
         THEN /\ tracker_'.tracker_state = "LOST"
              /\ ~tick'.target_pub[1].tracking
         ELSE /\ tracker_'.tracker_state = "TEMP_LOST"
              /\ tracker_'.lost_count = tracker_.lost_count + 1
              /\ tick'.target_pub[1].tracking

C10_TempLostBounded ==
  (tick.kind = "update" /\ dt_ > 0 /\ tracker_.tracker_state = "TEMP_LOST") =>
    /\ tracker_.lost_thres * lost_time_thres_[2] * dt_ <= lost_time_thres_[1]
    /\ tracker_.lost_count <= tracker_.lost_thres \/ tracker_.lost_count = 1

C10_TempLostCounts ==
  [][C10_EmptyTick]_vars /\ []C10_TempLostBounded

C10_Witness ==
  /\ tick.kind = "update"
  /\ tick.armors = <<>>
  /\ dt_ = 1
  /\ tracker_.tracker_state = "LOST"
  /\ tracker_.lost_count = 3
  /\ tracker_.lost_thres = 2

Abs(a) == IF a < 0 THEN 0 - a ELSE a

\* C11 (as stated): on every tick that runs Tracker.update, lost_thres has
\* been recomputed as |lost_time_thres / dt|: the number of whole ticks of
\* length |dt| that fit in the time budget lost_time_thres.
C11_LostThresIsBudget ==
  tick.kind = "update" =>
    /\ tracker_.lost_thres >= 0
    /\ tracker_.lost_thres * lost_time_thres_[2] * Abs(dt_)
         <= lost_time_thres_[1]
    /\ (tracker_.lost_thres + 1) * lost_time_thres_[2] * Abs(dt_)
         > lost_time_thres_[1]

\* C12: a tick that finds the tracker LOST and is not dropped runs init and
\* nothing else: an empty batch leaves the tracker as it was (LOST), a
\* batch with an armor leaves it DETECTING with the state
\* [x, 0, y, 0, z, 0, yaw, 0, 0.26] of one of the armors and P0; dt_ and
\* lost_thres are not recomputed, no measurement goes out and the snapshot
\* has tracking = false.
C12_LostTick ==
  [][(tracker_.tracker_state = "LOST" /\ tick'.kind # "dropped") =>
       /\ tick'.kind = "init"
       /\ dt_' = dt_
       /\ tracker_'.lost_thres = tracker_.lost_thres
       /\ tracker_'.lost_count = tracker_.lost_count
       /\ tracker_'.detect_count = tracker_.detect_count
       /\ tick'.measure_pub = <<>>
       /\ ~tick'.target_pub[1].tracking
       /\ IF tick'.armors = <<>>
          THEN tracker_' = tracker_
          ELSE /\ tracker_'.tracker_state = "DETECTING"
               /\ tracker_'.ekf_P = "P0"
               /\ \E i \in 1..Len(tick'.armors) :
                    LET a == tick'.armors[i]
                    IN /\ tracker_'.target_state =
                            <<a.x, 0, a.y, 0, a.z, 0, a.yaw, 0, 26>>
                       /\ tracker_'.tracked_id = a.number]_vars

C12_Witness ==
  /\ tick.kind = "init"
  /\ tracker_.tracker_state = "DETECTING"
  /\ tracker_.target_state = <<100, 0, 0, 0, 0, 0, 0, 0, 26>>
  /\ dt_ = 2
  /\ tracker_.lost_thres = 1

\* C13: between consecutive ticks the tracker state only moves
\* LOST -> {LOST, DETECTING}, DETECTING -> {DETECTING, TRACKING, LOST},
\* TRACKING -> {TRACKING, TEMP_LOST}, TEMP_LOST -> {TEMP_LOST, TRACKING,
\* LOST}; TRACKING never becomes LOST in one tick, whatever lost_thres is.
C13_Allowed ==
  { <<"LOST", "LOST">>, <<"LOST", "DETECTING">>,
    <<"DETECTING", "DETECTING">>, <<"DETECTING", "TRACKING">>,
    <<"DETECTING", "LOST">>,
    <<"TRACKING", "TRACKING">>, <<"TRACKING", "TEMP_LOST">>,
    <<"TEMP_LOST", "TEMP_LOST">>, <<"TEMP_LOST", "TRACKING">>,
    <<"TEMP_LOST", "LOST">> }

C13_Transitions ==
  [][(<<tracker_.tracker_state, tracker_'.tracker_state>> \in C13_Allowed)]_vars

C13_Witness ==
  /\ tick.kind = "update"
  /\ tracker_.tracker_state = "TEMP_LOST"
  /\ tracker_.lost_count = 1
  /\ tracker_.lost_thres <= 0

\* C14: a DETECTING track that gets no associating observation goes back
\* to LOST with detect_count = 0; while DETECTING, detect_count is the
\* number of consecutive associated ticks since the init; a track is
\* promoted, and a snapshot with tracking = true published, only once it
\* has had tracking_thres consecutive associated ticks since its init.
C14_Step ==
  /\ (/\ tracker_.tracker_state = "DETECTING"
      /\ tick'.kind = "update"
      /\ (tick'.armors = <<>> \/ run' = 0)) =>
        /\ tracker_'.tracker_state = "LOST"
        /\ tracker_'.detect_count = 0
        /\ ~tick'.target_pub[1].tracking
  /\ (tick'.target_pub # <<>> /\ tick'.target_pub[1].tracking) =>
        /\ tracker_.tracker_state \in {"DETECTING", "TRACKING", "TEMP_LOST"}
        /\ tracker_'.tracker_state \in {"TRACKING", "TEMP_LOST"}
        /\ tracker_.tracker_state = "DETECTING" =>
             /\ run' = tracking_thres + 1
             /\ tracker_.detect_count = tracking_thres - 1

C14_Count ==
  tracker_.tracker_state = "DETECTING" =>
    /\ run >= 1
    /\ tracker_.detect_count = run - 1
    /\ tracker_.detect_count < tracking_thres

C14_DetectCount ==
  [][C14_Step]_vars /\ []C14_Count

C14_Witness ==
  /\ tick.kind = "update"
  /\ tick.armors # <<>>
  /\ tracker_.tracker_state = "LOST"
  /\ tracker_.lost_count = 0
  /\ tracker_.detect_count = 0
  /\ run = 0

\* C15: the prediction is constant velocity: on a tick with an empty batch
\* that leaves the track TEMP_LOST, the published position and yaw are
\* those of the tick before advanced by velocity * dt, and the velocity,
\* v_yaw and radius_1 are those of the tick before.
C15_Step ==
  (/\ tick'.kind = "update"
   /\ tick'.armors = <<>>
   /\ tracker_.tracker_state \in {"TRACKING", "TEMP_LOST"}
   /\ tracker_'.tracker_state = "TEMP_LOST") =>
     LET x   == tracker_.target_state
         msg == tick'.target_pub[1]
     IN /\ msg.tracking
        /\ msg.position = <<x[1] + x[2] * dt_', x[3] + x[4] * dt_',
                            x[5] + x[6] * dt_'>>
        /\ msg.yaw = x[7] + x[8] * dt_'
        /\ msg.velocity = <<x[2], x[4], x[6]>>
        /\ msg.v_yaw = x[8]
        /\ msg.radius_1 = x[9]

C15_ConstantVelocity == [][C15_Step]_vars

C15_Witness ==
  /\ tick.kind = "update"
  /\ tick.armors = <<>>
  /\ tracker_.tracker_state = "TEMP_LOST"
  /\ tracker_.lost_count = 2
  /\ dt_ = 1
  /\ tick.target_pub[1].position = <<126 - 2 * VStep, 2 * VStep, 2 * VStep>>
  /\ tick.target_pub[1].yaw = 2
  /\ tick.target_pub[1].velocity = <<0 - VStep, VStep, VStep>>

\* the state x a time dt later, at constant velocity
Advanced(x, dt) ==
  <<x[1] + x[2] * dt, x[2], x[3] + x[4] * dt, x[4], x[5] + x[6] * dt, x[6],
    x[7] + x[8] * dt, x[8], x[9]>>

\* every armor is farther than max_match_distance from every plate of tr
\* placed at the state x
AllFar(tr, x, armors) ==
  \A i \in 1..Len(armors) : \A k \in 0..(tr.tracked_armors_num - 1) :
    PlateDist2(x, tr.tracked_armors_num, tr.another_r, tr.dz, k, armors[i])
      > max_match_distance * max_match_distance

\* C16: in TRACKING, a tick whose observations all lie farther than
\* max_match_distance from every predicted plate is a miss: the filter
\* state after it is the prediction of the state before it, the
\* measurement is not replaced, and the track becomes TEMP_LOST.
C16_Step ==
  (/\ tracker_.tracker_state = "TRACKING"
   /\ tick'.kind = "update"
   /\ tick'.armors # <<>>
   /\ AllFar(tracker_, Advanced(tracker_.target_state, dt_'), tick'.armors)) =>
     /\ tracker_'.target_state = Advanced(tracker_.target_state, dt_')
     /\ tracker_'.measurement = tracker_.measurement
     /\ tracker_'.another_r = tracker_.another_r
     /\ tracker_'.dz = tracker_.dz
     /\ tracker_'.tracker_state = "TEMP_LOST"
     /\ tracker_'.lost_count = 1

C16_Gating == [][C16_Step]_vars

C16_Witness ==
  /\ tick.kind = "update"
  /\ tick.armors = <<Armor("3", 252, 0, 0, 0)>>
  /\ tracker_.tracker_state = "TEMP_LOST"
  /\ tracker_.lost_count = 1
  /\ dt_ = 2
  /\ tracker_.target_state[1] = 126 + 2 * VStep
  /\ tracker_.target_state[9] = 40

\* the spectral density of the axis of state entry i (1..8)
AxisDensity(i) ==
  CASE i \in {1, 2} -> s2qx_
    [] i \in {3, 4} -> s2qy_
    [] i \in {5, 6} -> s2qz_
    [] i \in {7, 8} -> s2qyaw_

\* entry (i, j) of 4 * Q(dt) with every pair on its own axis' density
PerAxisQ(i, j, dt) ==
  IF i = 9 /\ j = 9 THEN dt*dt*dt*dt * s2qr_
  ELSE IF i = 9 \/ j = 9 THEN 0
  ELSE IF i = j /\ i % 2 = 1 THEN dt*dt*dt*dt * AxisDensity(i)
  ELSE IF i = j THEN 4 * dt*dt * AxisDensity(i)
  ELSE IF (i % 2 = 1 /\ j = i + 1) \/ (j % 2 = 1 /\ i = j + 1)
       THEN 2 * dt*dt*dt * AxisDensity(i)
  ELSE 0

\* C17 (as stated): the Q the filter predicts with has, for each
\* (position, velocity) pair, dt^4/4 * s, dt^3/2 * s and dt^2 * s with the
\* density s of that pair's own axis, dt^4/4 * sigma2_q_r for r, and zero
\* elsewhere.
C17_PerAxisNoise ==
  tick.kind = "update" =>
    \A i \in 1..9 : \A j \in 1..9 :
      tracker_.ekf_Q[i][j] = PerAxisQ(i, j, dt_)

\* C18: whenever the tracker is not LOST the radius of the filter state is
\* within [0.12, 0.40] m, and so is radius_1 of every snapshot with
\* tracking = true.
C18_RadiusBounded ==
  /\ tracker_.tracker_state # "LOST" =>
       (12 <= tracker_.target_state[9] /\ tracker_.target_state[9] <= 40)
  /\ (tick.target_pub # <<>> /\ tick.target_pub[1].tracking) =>
       (12 <= tick.target_pub[1].radius_1 /\ tick.target_pub[1].radius_1 <= 40)

C18_Witness ==
  /\ tick.kind = "update"
  /\ tick.armors # <<>>
  /\ tracker_.tracker_state = "TRACKING"
  /\ tracker_.measurement[1] # h(tracker_.target_state)[1]
  /\ tick.target_pub[1].tracking
  /\ tick.target_pub[1].radius_1 = 12

\* the track init leaves: the id and the state vector
Track(tr) == <<tr.tracker_state, tr.tracked_id, tr.target_state>>

\* a batch of two in the other order
Swapped(armors) == <<armors[2], armors[1]>>

Distance2(a) == Norm2(a.x, a.y, a.z)

StampOf(t) == t.target_pub[1].stamp

C20_Step ==
  /\ tick'.kind = "dropped" => last_time_' = last_time_ /\ dt_' = dt_
  /\ tick'.kind \in {"init", "update"} => last_time_' = StampOf(tick')
  /\ tick'.kind = "init" => dt_' = dt_
  /\ tick'.kind = "update" =>
       /\ dt_' = StampOf(tick') - last_time_
       /\ tracker_'.lost_thres \in LostThresOutcomes(dt_')
       /\ tracker_'.ekf_Q = u_q(dt_')
       /\ tracker_.tracker_state # "LOST"
  /\ (tracker_.tracker_state = "LOST" /\ tracker_'.tracker_state # "LOST") =>
       tick'.kind = "init"

C20_LastStamp ==
  /\ Ran => last_time_ = StampOf(tick)
  /\ tracker_.tracker_state # "LOST" => tick.kind # "none"

\* C20: last_time_ is set to the batch's stamp at the end of every tick that
\* is not dropped (LOST ticks and the init tick included) and is left alone
\* by a dropped tick, so it is the stamp of the most recent tick that was
\* not dropped; every update uses dt_ = stamp - last_time_ for lost_thres
\* and Q, and runs only after an init tick has set last_time_.
C20_DtSpansDroppedTicks == [][C20_Step]_vars /\ []C20_LastStamp

C20_Witness ==
  /\ tick.kind = "update"
  /\ dt_ = 2
  /\ StampOf(tick) = 3
  /\ last_time_ = 3
  /\ tracker_.lost_thres = 1
  /\ tracker_.ekf_Q = u_q(2)

====
